---- MODULE Spec2Model ----
(***************************************************************************)
(* Model of dedupy's concurrent deduplication engine (src/src/main.py):    *)
(* the Deduplicator object, its worker pool running process_file, the      *)
(* module-level hash objects, the persistent index and the file tree.      *)
(***************************************************************************)
EXTENDS Integers, Sequences, FiniteSets, TLC

\* ------------------------------------------------------------------ bounds
NumFiles == 3
MaxThreads == 2
MaxRuns == 2
RerunFiles == 2
MaxLen == 1
MaxFaults == 1
NumBytes == 2

\* --sync-interval and --buffer-size as given on the command line of the
\* modelled invocations (the defaults are 100 and 65536).
SyncInterval == 2
BufferSize == 1

Files == 1 .. NumFiles
Threads == 1 .. MaxThreads
Bytes == 1 .. NumBytes

\* File contents: byte strings of length <= MaxLen.
Contents == UNION {[1 .. n -> Bytes] : n \in 0 .. MaxLen}

\* ------------------------------------------------------------------ paths
\* A path is <<base, suffixes>>: the name the tree started with and the
\* suffixes the strategies appended to it.
TMP == "tmp_dedupy"
DUP == "duplicate"
BasePath(i) == <<i, <<>>>>
AddSuffix(p, s) == <<p[1], Append(p[2], s)>>
\* Python's None for a path and for a digest.
NoPath == <<0, <<>>>>
NoHash == [digest |-> <<0>>]

VARIABLES
    tree,             \* inode -> [link, data]: what the inode holds
    fs,               \* path -> inode: the directory entries
    hashes,           \* the Index (mmapdict): digest -> path
    flushed,          \* the Index as of the last forced flush (or start-up)
    hasher,           \* bytes fed so far to the module-level hash object
    run,              \* number of invocations of main() started
    previous,         \* how the invocation before this one was run and ended
    phase,            \* where main() is
    result,           \* how deduplicate() ended
    replace_strategy, dry_run, max_threads, use_bloom_filter, hash_algorithm,
    exclude_patterns,
    bloom_filter,     \* NoBloom (None) or the filter and its members
    file_sizes,       \* size -> path
    stats,
    hashes_lock, file_sizes_lock, stats_lock,   \* 0 or the holder
    queue,            \* submitted, not yet started
    raised,           \* some future holds an exception
    faults,           \* system calls made to fail so far by the environment
    pc, loc           \* per worker: position and locals of process_file

cfgvars == <<replace_strategy, dry_run, max_threads, use_bloom_filter,
             hash_algorithm, exclude_patterns>>
lockvars == <<hashes_lock, file_sizes_lock, stats_lock>>
vars == <<tree, fs, hashes, flushed, hasher, run, previous, phase, result, cfgvars,
          bloom_filter, file_sizes, stats, lockvars, queue, raised, faults,
          pc, loc>>

\* ------------------------------------------------------------------ helpers
Exists(p) == p \in DOMAIN fs
IsLink(p) == tree[fs[p]].link
Data(p) == tree[fs[p]].data
GetSize(p) == Len(Data(p))
Remove(f, p) == [q \in DOMAIN f \ {p} |-> f[q]]
Put(f, k, v) == [q \in DOMAIN f \cup {k} |-> IF q = k THEN v ELSE f[q]]
Rename(f, p, q) == Put(Remove(f, p), q, f[p])

\* A system call either goes its normal way or is made to fail by the
\* environment (permissions, a vanished file, a full link table).
Syscall(ok) ==
    /\ ok \in BOOLEAN
    /\ ~ok => faults < MaxFaults
    /\ faults' = IF ok THEN faults ELSE faults + 1

\* The contents some regular file of the tree holds.
ContentsPresent == {tree[fs[p]].data : p \in {q \in DOMAIN fs : ~IsLink(q)}}

EmptyStats == [total_files |-> 0, duplicates_found |-> 0, duplicates_removed |-> 0,
               hard_links_created |-> 0, space_saved |-> 0]

NoLoc == [file_path |-> NoPath, file_size |-> 0, existing_file |-> NoPath,
          file_hash |-> NoHash, pos |-> 0, source |-> NoPath,
          st_ino_target |-> 0, target_size |-> 0, hl |-> "none"]

\* fnmatch.fnmatch(path, "*.<suffix>")
FnMatch(p, pattern) == Len(p[2]) > 0 /\ p[2][Len(p[2])] = pattern

is_excluded(p) == \E pattern \in exclude_patterns : FnMatch(p, pattern)

\* os.walk: the entries in directory order (by name).
PathLess(p, q) ==
    \/ p[1] < q[1]
    \/ /\ p[1] = q[1]
       /\ Len(p[2]) < Len(q[2])
    \/ /\ p[1] = q[1]
       /\ Len(p[2]) = Len(q[2])
       /\ p[2] # q[2]
       /\ \E k \in 1 .. Len(p[2]) :
            /\ \A j \in 1 .. (k - 1) : p[2][j] = q[2][j]
            /\ p[2][k] = DUP /\ q[2][k] = TMP

RECURSIVE WalkOrder(_)
WalkOrder(S) ==
    IF S = {} THEN <<>>
    ELSE LET first == CHOOSE p \in S : \A q \in S \ {p} : PathLess(p, q)
         IN  <<first>> \o WalkOrder(S \ {first})

\* hash_function.hexdigest(): the digest of everything fed to the object so
\* far. The digest is taken to be collision free: two digests are equal
\* exactly when the byte streams they digest are.
hexdigest(h) == [digest |-> h]

EmptyMap == [q \in {} |-> 0]
NoBloom == [created |-> FALSE, members |-> {}]
Strategies == {"hardlink", "delete", "rename"}
\* With xxhash installed HASH_ALGORITHMS holds an object for xxhash and
\* sha256 and None for blake3.
Algorithms == {"xxhash", "blake3"}
HASH_ALGORITHMS(a) == a # "blake3"
DefaultExclude == {TMP}
\* No invocation came before the first one.
NoRun == [replace_strategy |-> "none", dry_run |-> FALSE, result |-> "none"]

\* ------------------------------------------------------------------ Init
\* The trees the invocations start from: 1 .. NumFiles entries, each a regular
\* file or a symbolic link, at most one of them a link. Bytes only matter up
\* to equality, so the first byte that occurs in a tree is byte 1.
Blank == [link |-> FALSE, data |-> <<>>]
RECURSIVE FirstByte(_, _)
FirstByte(t, i) ==
    IF i > NumFiles THEN 1
    ELSE IF t[i].data # <<>> THEN t[i].data[1]
    ELSE FirstByte(t, i + 1)

InitTrees(n) ==
    {t \in [Files -> [link : BOOLEAN, data : Contents]] :
        /\ \A i \in Files : (t[i].link \/ i > n) => t[i].data = <<>>
        /\ \A i \in Files : i > n => ~t[i].link
        /\ Cardinality({i \in Files : t[i].link}) <= 1
        /\ FirstByte(t, 1) = 1}

Init ==
    /\ \E n \in Files :
        /\ tree \in InitTrees(n)
        /\ fs = [p \in {BasePath(i) : i \in 1 .. n} |-> p[1]]
    /\ hashes = EmptyMap
    /\ flushed = EmptyMap
    /\ hasher = <<>>
    /\ run = 0
    /\ previous = NoRun
    /\ phase = "start"
    /\ result = "none"
    /\ replace_strategy = "hardlink"
    /\ dry_run = FALSE
    /\ max_threads = 1
    /\ use_bloom_filter = FALSE
    /\ hash_algorithm = "xxhash"
    /\ exclude_patterns = DefaultExclude
    /\ bloom_filter = NoBloom
    /\ file_sizes = EmptyMap
    /\ stats = EmptyStats
    /\ hashes_lock = 0 /\ file_sizes_lock = 0 /\ stats_lock = 0
    /\ queue = <<>>
    /\ raised = FALSE
    /\ faults = 0
    /\ pc = [w \in Threads |-> "idle"]
    /\ loc = [w \in Threads |-> NoLoc]

\* ------------------------------------------------------------------ main()
\* _load_bloom_filter: the filter is created, then the loop over
\* self.hashes.values() calls the returned collection and raises TypeError
\* (BloomFilter(0) raises before that on an empty directory).
LoadBloomFilter == 
    IF Cardinality(DOMAIN fs) > 0 THEN [created |-> TRUE, members |-> {}]
    ELSE NoBloom

\* One invocation of the program up to the end of Deduplicator.__init__: the
\* module is imported (fresh hash objects), the arguments are parsed, the
\* Index file is opened.
Main ==
    /\ phase \in {"start", "finished", "startup_failed"}
    /\ run < MaxRuns
    /\ run > 0 => Cardinality(DOMAIN fs) <= RerunFiles
    /\ run' = run + 1
    /\ previous' = IF run = 0 THEN NoRun
                   ELSE [replace_strategy |-> replace_strategy, dry_run |-> dry_run,
                         result |-> result]
    /\ hasher' = <<>>
    /\ replace_strategy' \in Strategies
    /\ dry_run' \in BOOLEAN
    /\ max_threads' \in Threads
    /\ use_bloom_filter' \in BOOLEAN
    /\ hash_algorithm' \in Algorithms
    /\ exclude_patterns' = DefaultExclude
    /\ file_sizes' = EmptyMap
    /\ stats' = EmptyStats
    /\ hashes_lock' = 0 /\ file_sizes_lock' = 0 /\ stats_lock' = 0
    /\ queue' = <<>>
    /\ raised' = FALSE
    /\ result' = "none"
    /\ IF use_bloom_filter'
       THEN bloom_filter' = LoadBloomFilter /\ phase' = "startup_failed"
       ELSE bloom_filter' = NoBloom /\ phase' = "constructed"
    /\ flushed' = hashes
    /\ UNCHANGED <<tree, fs, hashes, faults, pc, loc>>

\* deduplicate(): walk the tree and submit every file to the pool.
Deduplicate ==
    /\ phase = "constructed"
    /\ phase' = "running"
    /\ queue' = WalkOrder(DOMAIN fs)
    /\ UNCHANGED <<faults, tree, fs, hashes, flushed, hasher, run, previous, result, cfgvars,
                   bloom_filter, file_sizes, stats, lockvars, raised, pc, loc>>

\* deduplicate(): every future is done; future.result() re-raises the
\* exception of a failed process_file call, after the pool has drained.
DeduplicateReturn ==
    /\ phase = "running"
    /\ queue = <<>>
    /\ \A w \in Threads : pc[w] = "idle"
    /\ phase' = "finished"
    /\ result' = IF raised THEN "raised" ELSE "returned"
    /\ UNCHANGED <<faults, tree, fs, hashes, flushed, hasher, run, previous, cfgvars,
                   bloom_filter, file_sizes, stats, lockvars, queue, raised, pc, loc>>


\* ------------------------------------------------------------------ workers
\* A process_file call ends: normally, or with an exception that the future
\* keeps. The locals go away with the frame.
Return(w) ==
    /\ pc' = [pc EXCEPT ![w] = "idle"]
    /\ loc' = [loc EXCEPT ![w] = NoLoc]
    /\ UNCHANGED raised

Raise(w) ==
    /\ pc' = [pc EXCEPT ![w] = "idle"]
    /\ loc' = [loc EXCEPT ![w] = NoLoc]
    /\ raised' = TRUE

Goto(w, label) == pc' = [pc EXCEPT ![w] = label]

\* StartFile without the exclusion test of lines 211-213.
StartFileAll(w) ==
    /\ phase = "running"
    /\ w <= max_threads
    /\ pc[w] = "idle"
    /\ \A v \in 1 .. (w - 1) : pc[v] # "idle"
    /\ queue # <<>>
    /\ queue' = Tail(queue)
    /\ Goto(w, "count")
    /\ loc' = [loc EXCEPT ![w].file_path = Head(queue)]
    /\ UNCHANGED <<faults, tree, fs, hashes, flushed, hasher, run, previous, phase, result, cfgvars,
                   bloom_filter, file_sizes, stats, lockvars, raised>>

\* A pool thread takes the next submitted file; an excluded path returns at
\* once (lines 211-213).
StartFile(w) ==
    /\ phase = "running"
    /\ w <= max_threads
    /\ pc[w] = "idle"
    /\ \A v \in 1 .. (w - 1) : pc[v] # "idle"
    /\ queue # <<>>
    /\ queue' = Tail(queue)
    /\ IF is_excluded(Head(queue))
       THEN UNCHANGED <<pc, loc>>
       ELSE /\ Goto(w, "count")
            /\ loc' = [loc EXCEPT ![w].file_path = Head(queue)]
    /\ UNCHANGED <<faults, tree, fs, hashes, flushed, hasher, run, previous, phase, result, cfgvars,
                   bloom_filter, file_sizes, stats, lockvars, raised>>

\* `with self.stats_lock:` entered (lines 215, 239, 150, 166).
StatsPcs == {"count", "dup_count", "hl_count", "del_count"}

AcquireStats(w) ==
    /\ pc[w] \in StatsPcs
    /\ stats_lock = 0
    /\ stats_lock' = w
    /\ UNCHANGED <<faults, tree, fs, hashes, flushed, hasher, run, previous, phase, result, cfgvars,
                   bloom_filter, file_sizes, stats, hashes_lock, file_sizes_lock,
                   queue, raised, pc, loc>>

\* Line 216.
CountFile(w) ==
    /\ pc[w] = "count"
    /\ stats_lock = w
    /\ stats' = [stats EXCEPT !.total_files = @ + 1]
    /\ stats_lock' = 0
    /\ Goto(w, "stat")
    /\ UNCHANGED <<faults, tree, fs, hashes, flushed, hasher, run, previous, phase, result, cfgvars,
                   bloom_filter, file_sizes, hashes_lock, file_sizes_lock,
                   queue, raised, loc>>

\* Lines 219-223: a symbolic link is skipped; os.path.getsize raises OSError
\* when the file cannot be stat'ed, and nothing catches it.
StatFile(w) ==
    /\ pc[w] = "stat"
    /\ \E ok \in BOOLEAN :
        /\ Syscall(ok)
        /\ IF Exists(loc[w].file_path) /\ IsLink(loc[w].file_path)
           THEN ok /\ Return(w)
           ELSE IF ok /\ Exists(loc[w].file_path)
                THEN /\ Goto(w, "size")
                     /\ loc' = [loc EXCEPT ![w].file_size = GetSize(loc[w].file_path)]
                     /\ UNCHANGED raised
                ELSE Raise(w)
    /\ UNCHANGED <<tree, fs, hashes, flushed, hasher, run, previous, phase, result, cfgvars,
                   bloom_filter, file_sizes, stats, lockvars, queue>>

AcquireSizes(w) ==
    /\ pc[w] = "size"
    /\ file_sizes_lock = 0
    /\ file_sizes_lock' = w
    /\ UNCHANGED <<faults, tree, fs, hashes, flushed, hasher, run, previous, phase, result, cfgvars,
                   bloom_filter, file_sizes, stats, hashes_lock, stats_lock,
                   queue, raised, pc, loc>>

\* self.file_sizes.get(file_size, None)
SizeGet(size) == IF size \in DOMAIN file_sizes THEN file_sizes[size] ELSE NoPath

\* ObserveSize storing the path whether or not the size has an entry.
ObserveSizeLastWins(w) ==
    /\ pc[w] = "size"
    /\ file_sizes_lock = w
    /\ loc' = [loc EXCEPT ![w].existing_file = SizeGet(loc[w].file_size)]
    /\ file_sizes' = Put(file_sizes, loc[w].file_size, loc[w].file_path)
    /\ file_sizes_lock' = 0
    /\ Goto(w, "hash_open")
    /\ UNCHANGED <<faults, tree, fs, hashes, flushed, hasher, run, previous, phase, result, cfgvars,
                   bloom_filter, stats, hashes_lock, stats_lock, queue, raised>>

\* Lines 226-231.
ObserveSize(w) ==
    /\ pc[w] = "size"
    /\ file_sizes_lock = w
    /\ loc' = [loc EXCEPT ![w].existing_file = SizeGet(loc[w].file_size)]
    /\ IF SizeGet(loc[w].file_size) = NoPath
       THEN file_sizes' = Put(file_sizes, loc[w].file_size, loc[w].file_path)
       ELSE UNCHANGED file_sizes
    /\ file_sizes_lock' = 0
    /\ Goto(w, "hash_open")
    /\ UNCHANGED <<faults, tree, fs, hashes, flushed, hasher, run, previous, phase, result, cfgvars,
                   bloom_filter, stats, hashes_lock, stats_lock, queue, raised>>

\* get_file_hash, lines 100-106: open the file; OSError returns None.
HashOpen(w) ==
    /\ pc[w] = "hash_open"
    /\ \E ok \in BOOLEAN :
        /\ Syscall(ok)
        /\ IF ok /\ Exists(loc[w].file_path)
           THEN /\ Goto(w, "hash_read")
                /\ loc' = [loc EXCEPT ![w].pos = 0]
           ELSE /\ Goto(w, "resolve")
                /\ loc' = [loc EXCEPT ![w].file_hash = NoHash]
    /\ UNCHANGED <<tree, fs, hashes, flushed, hasher, run, previous, phase, result, cfgvars,
                   bloom_filter, file_sizes, stats, lockvars, queue, raised>>

\* f.read(self.buffer_size) at the worker's position.
Chunk(w) ==
    LET d == Data(loc[w].file_path)
        hi == IF loc[w].pos + BufferSize < Len(d) THEN loc[w].pos + BufferSize ELSE Len(d)
    IN  SubSeq(d, loc[w].pos + 1, hi)

\* Lines 107-108: one chunk goes into the shared hash object. Without an
\* object for the algorithm hash_function is the hashlib.sha256 constructor
\* and .update raises AttributeError, which nothing catches.
HashUpdate(w) ==
    /\ pc[w] = "hash_read"
    /\ Chunk(w) # <<>>
    /\ IF HASH_ALGORITHMS(hash_algorithm)
       THEN /\ hasher' = hasher \o Chunk(w)
            /\ loc' = [loc EXCEPT ![w].pos = @ + Len(Chunk(w))]
            /\ UNCHANGED <<pc, raised>>
       ELSE /\ Raise(w)
            /\ UNCHANGED hasher
    /\ UNCHANGED <<faults, tree, fs, hashes, flushed, run, previous, phase, result, cfgvars,
                   bloom_filter, file_sizes, stats, lockvars, queue>>

\* Line 114, after the read loop has met the end of the file.
HashDigest(w) ==
    /\ pc[w] = "hash_read"
    /\ Chunk(w) = <<>>
    /\ IF HASH_ALGORITHMS(hash_algorithm)
       THEN /\ Goto(w, "resolve")
            /\ loc' = [loc EXCEPT ![w].file_hash = hexdigest(hasher)]
            /\ UNCHANGED raised
       ELSE Raise(w)
    /\ UNCHANGED <<faults, tree, fs, hashes, flushed, hasher, run, previous, phase, result, cfgvars,
                   bloom_filter, file_sizes, stats, lockvars, queue>>

\* `file_hash in self.bloom_filter`
BloomContains(h) == h \in bloom_filter.members

\* Lines 235-238: the resolver's decision.
IsDuplicate(w) ==
    /\ loc[w].existing_file # NoPath
    /\ loc[w].file_hash # NoHash
    /\ (~use_bloom_filter \/ BloomContains(loc[w].file_hash))
    /\ loc[w].file_hash \in DOMAIN hashes

Resolve(w) ==
    /\ pc[w] = "resolve"
    /\ IF IsDuplicate(w) THEN Goto(w, "dup_count") ELSE Goto(w, "register")
    /\ UNCHANGED <<faults, tree, fs, hashes, flushed, hasher, run, previous, phase, result, cfgvars,
                   bloom_filter, file_sizes, stats, lockvars, queue, raised, loc>>

\* CountDuplicate without the increment of line 240.
CountDuplicateNever(w) ==
    /\ pc[w] = "dup_count"
    /\ stats_lock = w
    /\ stats' = stats
    /\ stats_lock' = 0
    /\ Goto(w, "strategy")
    /\ UNCHANGED <<faults, tree, fs, hashes, flushed, hasher, run, previous, phase, result, cfgvars,
                   bloom_filter, file_sizes, hashes_lock, file_sizes_lock,
                   queue, raised, loc>>

\* Line 240.
CountDuplicate(w) ==
    /\ pc[w] = "dup_count"
    /\ stats_lock = w
    /\ stats' = [stats EXCEPT !.duplicates_found = @ + 1]
    /\ stats_lock' = 0
    /\ Goto(w, "strategy")
    /\ UNCHANGED <<faults, tree, fs, hashes, flushed, hasher, run, previous, phase, result, cfgvars,
                   bloom_filter, file_sizes, hashes_lock, file_sizes_lock,
                   queue, raised, loc>>

\* ------------------------------------------------------------------ strategies
Target(w) == loc[w].file_path
TmpOf(p) == AddSuffix(p, TMP)

\* Line 243 and create_hard_link lines 133-135: the canonical path is read
\* from the Index; a dry run only logs.
CreateHardLink(w) ==
    /\ pc[w] = "strategy"
    /\ replace_strategy = "hardlink"
    /\ loc' = [loc EXCEPT ![w].source = hashes[loc[w].file_hash]]
    /\ IF dry_run THEN Goto(w, "register") ELSE Goto(w, "hl_stat")
    /\ UNCHANGED <<faults, tree, fs, hashes, flushed, hasher, run, previous, phase, result, cfgvars,
                   bloom_filter, file_sizes, stats, lockvars, queue, raised>>

\* Lines 138-143: os.stat of both paths (an exception is caught at line 154),
\* the inode comparison, the size of the target.
HlStat(w) ==
    /\ pc[w] = "hl_stat"
    /\ IF ~Exists(loc[w].source) \/ ~Exists(Target(w))
       THEN /\ Goto(w, "register")
            /\ loc' = [loc EXCEPT ![w].hl = "stat_failed"]
       ELSE IF fs[loc[w].source] = fs[Target(w)]
            THEN /\ Goto(w, "register")
                 /\ loc' = [loc EXCEPT ![w].hl = "same"]
            ELSE /\ Goto(w, "hl_rename")
                 /\ loc' = [loc EXCEPT ![w].st_ino_target = fs[Target(w)],
                                       ![w].target_size = GetSize(Target(w))]
    /\ UNCHANGED <<faults, tree, fs, hashes, flushed, hasher, run, previous, phase, result, cfgvars,
                   bloom_filter, file_sizes, stats, lockvars, queue, raised>>

\* Line 146: os.rename(target, target + ".tmp_dedupy").
HlRename(w) ==
    /\ pc[w] = "hl_rename"
    /\ \E ok \in BOOLEAN :
        /\ Syscall(ok)
        /\ IF ok /\ Exists(Target(w))
           THEN /\ fs' = Rename(fs, Target(w), TmpOf(Target(w)))
                /\ Goto(w, "hl_link")
                /\ UNCHANGED loc
           ELSE /\ Goto(w, "register")
                /\ loc' = [loc EXCEPT ![w].hl = "rename_failed"]
                /\ UNCHANGED fs
    /\ UNCHANGED <<tree, hashes, flushed, hasher, run, previous, phase, result, cfgvars,
                   bloom_filter, file_sizes, stats, lockvars, queue, raised>>

\* HlLink with a handler that cleans up after a failed link by removing the
\* temporary sibling.
HlLinkCleanup(w) ==
    /\ pc[w] = "hl_link"
    /\ \E ok \in BOOLEAN :
        /\ Syscall(ok)
        /\ IF ok /\ Exists(loc[w].source) /\ ~Exists(Target(w))
           THEN /\ fs' = Put(fs, Target(w), fs[loc[w].source])
                /\ Goto(w, "hl_remove")
                /\ UNCHANGED loc
           ELSE /\ Goto(w, "register")
                /\ loc' = [loc EXCEPT ![w].hl = "link_failed"]
                /\ fs' = Remove(fs, TmpOf(Target(w)))
    /\ UNCHANGED <<tree, hashes, flushed, hasher, run, previous, phase, result, cfgvars,
                   bloom_filter, file_sizes, stats, lockvars, queue, raised>>

\* Line 147: os.link(source, target); it fails when the source is gone, when
\* the target exists, or for a reason of the file system's (EMLINK, EXDEV,
\* EPERM). The handler at line 154 logs and returns.
HlLink(w) ==
    /\ pc[w] = "hl_link"
    /\ \E ok \in BOOLEAN :
        /\ Syscall(ok)
        /\ IF ok /\ Exists(loc[w].source) /\ ~Exists(Target(w))
           THEN /\ fs' = Put(fs, Target(w), fs[loc[w].source])
                /\ Goto(w, "hl_remove")
                /\ UNCHANGED loc
           ELSE /\ Goto(w, "register")
                /\ loc' = [loc EXCEPT ![w].hl = "link_failed"]
                /\ UNCHANGED fs
    /\ UNCHANGED <<tree, hashes, flushed, hasher, run, previous, phase, result, cfgvars,
                   bloom_filter, file_sizes, stats, lockvars, queue, raised>>

\* Line 148: os.remove(target + ".tmp_dedupy").
HlRemove(w) ==
    /\ pc[w] = "hl_remove"
    /\ \E ok \in BOOLEAN :
        /\ Syscall(ok)
        /\ IF ok /\ Exists(TmpOf(Target(w)))
           THEN /\ fs' = Remove(fs, TmpOf(Target(w)))
                /\ Goto(w, "hl_count")
                /\ UNCHANGED loc
           ELSE /\ Goto(w, "register")
                /\ loc' = [loc EXCEPT ![w].hl = "remove_failed"]
                /\ UNCHANGED fs
    /\ UNCHANGED <<tree, hashes, flushed, hasher, run, previous, phase, result, cfgvars,
                   bloom_filter, file_sizes, stats, lockvars, queue, raised>>

\* Lines 150-152.
CountHardLink(w) ==
    /\ pc[w] = "hl_count"
    /\ stats_lock = w
    /\ stats' = [stats EXCEPT !.hard_links_created = @ + 1,
                              !.space_saved = @ + loc[w].target_size]
    /\ stats_lock' = 0
    /\ Goto(w, "register")
    /\ loc' = [loc EXCEPT ![w].hl = "linked"]
    /\ UNCHANGED <<faults, tree, fs, hashes, flushed, hasher, run, previous, phase, result, cfgvars,
                   bloom_filter, file_sizes, hashes_lock, file_sizes_lock,
                   queue, raised>>

\* DeleteDuplicate without the dry_run test of lines 160-162.
DeleteDuplicateAlways(w) ==
    /\ pc[w] = "strategy"
    /\ replace_strategy = "delete"
    /\ \E ok \in BOOLEAN :
        /\ Syscall(ok)
        /\ IF ok /\ Exists(Target(w))
           THEN fs' = Remove(fs, Target(w)) /\ Goto(w, "del_count")
           ELSE Goto(w, "register") /\ UNCHANGED fs
    /\ UNCHANGED <<tree, hashes, flushed, hasher, run, previous, phase, result, cfgvars,
                   bloom_filter, file_sizes, stats, lockvars, queue, raised, loc>>

\* delete_duplicate, lines 160-165.
DeleteDuplicate(w) ==
    /\ pc[w] = "strategy"
    /\ replace_strategy = "delete"
    /\ IF dry_run
       THEN Goto(w, "register") /\ UNCHANGED <<fs, faults>>
       ELSE \E ok \in BOOLEAN :
              /\ Syscall(ok)
              /\ IF ok /\ Exists(Target(w))
                 THEN fs' = Remove(fs, Target(w)) /\ Goto(w, "del_count")
                 ELSE Goto(w, "register") /\ UNCHANGED fs
    /\ UNCHANGED <<tree, hashes, flushed, hasher, run, previous, phase, result, cfgvars,
                   bloom_filter, file_sizes, stats, lockvars, queue, raised, loc>>

\* Lines 166-167.
CountRemoved(w) ==
    /\ pc[w] = "del_count"
    /\ stats_lock = w
    /\ stats' = [stats EXCEPT !.duplicates_removed = @ + 1]
    /\ stats_lock' = 0
    /\ Goto(w, "register")
    /\ UNCHANGED <<faults, tree, fs, hashes, flushed, hasher, run, previous, phase, result, cfgvars,
                   bloom_filter, file_sizes, hashes_lock, file_sizes_lock,
                   queue, raised, loc>>

\* rename_duplicate, lines 176-182.
RenameDuplicate(w) ==
    /\ pc[w] = "strategy"
    /\ replace_strategy = "rename"
    /\ IF dry_run
       THEN UNCHANGED <<fs, faults>>
       ELSE \E ok \in BOOLEAN :
              /\ Syscall(ok)
              /\ IF ok /\ Exists(Target(w))
                 THEN fs' = Rename(fs, Target(w), AddSuffix(Target(w), DUP))
                 ELSE UNCHANGED fs
    /\ Goto(w, "register")
    /\ UNCHANGED <<tree, hashes, flushed, hasher, run, previous, phase, result, cfgvars,
                   bloom_filter, file_sizes, stats, lockvars, queue, raised, loc>>

\* ------------------------------------------------------------------ registration
\* `with self.hashes_lock:` entered (line 200).
AcquireHashes(w) ==
    /\ pc[w] = "register"
    /\ hashes_lock = 0
    /\ hashes_lock' = w
    /\ UNCHANGED <<faults, tree, fs, hashes, flushed, hasher, run, previous, phase, result, cfgvars,
                   bloom_filter, file_sizes, stats, file_sizes_lock, stats_lock,
                   queue, raised, pc, loc>>

\* self.hashes[file_hash] = file_path (line 201).
SetItem(index, file_hash, file_path) == Put(index, file_hash, file_path)

\* AddFileHashDatabase over a store that takes any key, None included.
AddFileHashDatabaseAnyKey(w) ==
    /\ pc[w] = "register"
    /\ hashes_lock = w
    /\ hashes_lock' = 0
    /\ hashes' = SetItem(hashes, loc[w].file_hash, loc[w].file_path)
    /\ flushed' = IF stats.total_files % SyncInterval = 0
                  THEN hashes' ELSE flushed
    /\ Return(w)
    /\ UNCHANGED <<faults, tree, fs, hasher, run, previous, phase, result, cfgvars,
                   bloom_filter, file_sizes, stats, file_sizes_lock, stats_lock,
                   queue>>

\* add_file_hash_database, lines 201-205. The mmapdict takes string keys
\* only: with file_hash None the assignment raises, the lock is released
\* and the exception leaves process_file.
AddFileHashDatabase(w) ==
    /\ pc[w] = "register"
    /\ hashes_lock = w
    /\ hashes_lock' = 0
    /\ IF loc[w].file_hash = NoHash
       THEN /\ Raise(w)
            /\ UNCHANGED <<hashes, flushed>>
       ELSE /\ hashes' = SetItem(hashes, loc[w].file_hash, loc[w].file_path)
            /\ flushed' = IF stats.total_files % SyncInterval = 0
                          THEN hashes' ELSE flushed
            /\ Return(w)
    /\ UNCHANGED <<faults, tree, fs, hasher, run, previous, phase, result, cfgvars,
                   bloom_filter, file_sizes, stats, file_sizes_lock, stats_lock,
                   queue>>

\* ------------------------------------------------------------------ specification
ProcessFile(w) ==
    \/ StartFile(w)
    \/ AcquireStats(w)
    \/ CountFile(w)
    \/ StatFile(w)
    \/ AcquireSizes(w)
    \/ ObserveSize(w)
    \/ HashOpen(w)
    \/ HashUpdate(w)
    \/ HashDigest(w)
    \/ Resolve(w)
    \/ CountDuplicate(w)
    \/ CreateHardLink(w)
    \/ HlStat(w)
    \/ HlRename(w)
    \/ HlLink(w)
    \/ HlRemove(w)
    \/ CountHardLink(w)
    \/ DeleteDuplicate(w)
    \/ CountRemoved(w)
    \/ RenameDuplicate(w)
    \/ AcquireHashes(w)
    \/ AddFileHashDatabase(w)

Next ==
    \/ Main
    \/ Deduplicate
    \/ DeduplicateReturn
    \/ \E w \in Threads : ProcessFile(w)

Spec == Init /\ [][Next]_vars

\* ------------------------------------------------------------------ properties
\* C1. First-seen wins: once the Index maps a fingerprint to a path, every
\* later state maps it to the same path; registering a fingerprint that is
\* present changes nothing.
C1_FirstSeenWins ==
    [][\A f \in DOMAIN hashes : f \in DOMAIN hashes' /\ hashes'[f] = hashes[f]]_vars

\* C2. Three files of identical content, an empty Index, no failure: each of
\* the second and third is reported as a duplicate, with the first file as
\* the canonical path handed to the strategy.
IdenticalTree == \A i \in Files : tree[i] = [link |-> FALSE, data |-> <<1>>]

C2_BothReported ==
    (run = 1 /\ IdenticalTree /\ faults = 0 /\ HASH_ALGORITHMS(hash_algorithm))
    => /\ \A w \in Threads : loc[w].source \in {NoPath, BasePath(1)}
       /\ phase = "finished" => stats.duplicates_found = NumFiles - 1

\* C3. A run with the delete strategy loses no content: every content some
\* file holds before a step of the run is still held by some file after it.
C3_DeleteKeepsContent ==
    [][replace_strategy = "delete" => ContentsPresent \subseteq ContentsPresent']_vars

\* C4. Only a file whose size-bucket lookup returned an existing path is
\* passed to get_file_hash.
C4_UniqueSizeNotHashed ==
    \A w \in Threads :
        pc[w] \in {"hash_open", "hash_read"} => loc[w].existing_file # NoPath

\* C5. The membership filter has no false negative: a fingerprint it answers
\* absent for is not in the Index.
C5_FilterNoFalseNegative ==
    bloom_filter.created => \A f \in DOMAIN hashes : BloomContains(f)

\* C6. When the link step of create_hard_link fails after the rename, the
\* temporary sibling exists and is the duplicate's original file, for as long
\* as the call's frame lives, and the failing step changes no counter.
LinkFailed(w) == loc[w].hl = "link_failed"

C6_LinkFailureKeepsData ==
    [][\A w \in Threads :
         /\ LinkFailed(w)' =>
              /\ TmpOf(loc'[w].file_path) \in DOMAIN fs'
              /\ fs'[TmpOf(loc'[w].file_path)] = loc'[w].st_ino_target
         /\ (~LinkFailed(w) /\ LinkFailed(w)') => stats' = stats]_vars

C6_Witness == \E w \in Threads : LinkFailed(w) /\ pc[w] = "register"

\* C7. In every intermediate state of a hard-link replacement the duplicate
\* path names a file with the original content.
C7_TargetAlwaysValid ==
    \A w \in Threads :
        pc[w] \in {"hl_rename", "hl_link", "hl_remove", "hl_count"} =>
            /\ Exists(Target(w))
            /\ Data(Target(w)) = tree[loc[w].st_ino_target].data

\* C8. A failure while processing one file stays inside that process_file
\* call: no future holds an exception, and deduplicate() returns normally
\* once every submitted file has completed.
C8_FailuresIsolated ==
    /\ ~raised
    /\ phase = "finished" => result = "returned"

\* C9. A process_file call whose fingerprint could not be computed changes
\* neither the Index nor the tree and never enters a replacement strategy.
HashFailed(w) == pc[w] \in {"resolve", "register"} /\ loc[w].file_hash = NoHash

StepOf(w) ==
    pc'[w] # pc[w] \/ loc'[w] # loc[w] \/ (hashes_lock' = w /\ hashes_lock # w)

Unflushed ==
    Cardinality({f \in DOMAIN hashes : f \notin DOMAIN flushed \/ flushed[f] # hashes[f]})

C10_FlushBound == Unflushed <= SyncInterval

\* C11. Idempotence of the hardlink strategy: when a complete hardlink run is
\* followed by a second hardlink run over the tree and the Index it left,
\* with no system call failing in either, the second run ends with
\* hard_links_created = 0 and duplicates_removed = 0.
FullHardlinkRun(r) ==
    r.replace_strategy = "hardlink" /\ ~r.dry_run /\ r.result = "returned"

ThisRun ==
    [replace_strategy |-> replace_strategy, dry_run |-> dry_run, result |-> result]

C11_HardlinkIdempotent ==
    (run = 2 /\ phase = "finished" /\ faults = 0
        /\ FullHardlinkRun(previous) /\ FullHardlinkRun(ThisRun))
    => /\ stats.hard_links_created = 0
       /\ stats.duplicates_removed = 0

\* C12. End-to-end statistics: a complete hardlink run from an empty Index
\* over regular files of one size, with no system call failing, ends with
\* total_files = number of files and duplicates_found = hard_links_created =
\* number of files - number of distinct contents.
\* The files the run started from (a hardlink run keeps, for every file, its
\* path or its temporary sibling) and what they held.
Original == {i \in Files : \E p \in DOMAIN fs : p[1] = i}

SameSizeTree ==
    /\ \A i \in Original : ~tree[i].link
    /\ \A i, j \in Original : Len(tree[i].data) = Len(tree[j].data)

Distinct == Cardinality({tree[i].data : i \in Original})

C12_EndToEndStatistics ==
    (run = 1 /\ phase = "finished" /\ faults = 0 /\ SameSizeTree
        /\ FullHardlinkRun(ThisRun))
    => /\ stats.total_files = Cardinality(Original)
       /\ stats.duplicates_found = Cardinality(Original) - Distinct
       /\ stats.hard_links_created = Cardinality(Original) - Distinct

\* C13. Dry-run purity: no step of a dry run changes the tree (paths, inodes,
\* contents), hard_links_created, duplicates_removed and space_saved stay 0,
\* and detection is the same as without dry_run: a finished run has counted
\* every walked file, and no step of any run, dry or not, changes the file a
\* process_file call has still to read for detection.
Detecting == {"count", "stat", "size", "hash_open", "hash_read", "resolve", "dup_count"}

ToDetect ==
    {queue[k] : k \in 1 .. Len(queue)}
        \cup {loc[w].file_path : w \in {v \in Threads : pc[v] \in Detecting}}

DryRunFrame ==
    (dry_run /\ run' = run) => (fs' = fs /\ tree' = tree)

DetectionFrame ==
    run' = run =>
        \A p \in ToDetect \cap DOMAIN fs : p \in DOMAIN fs' /\ fs'[p] = fs[p] /\ tree' = tree

DryRunCounters ==
    dry_run =>
        /\ stats.hard_links_created = 0
        /\ stats.duplicates_removed = 0
        /\ stats.space_saved = 0
        /\ phase = "finished" =>
                stats.total_files = Cardinality({p \in DOMAIN fs : ~is_excluded(p)})

Observed == {"hash_open", "hash_read", "resolve", "dup_count", "strategy", "hl_stat",
             "hl_rename", "hl_link", "hl_remove", "hl_count", "del_count", "register"}

SizeEntryAgrees ==
    \A w \in Threads :
        pc[w] \in Observed =>
            /\ loc[w].file_size \in DOMAIN file_sizes
            /\ IF loc[w].existing_file = NoPath
               THEN file_sizes[loc[w].file_size] = loc[w].file_path
               ELSE /\ file_sizes[loc[w].file_size] = loc[w].existing_file
                    /\ loc[w].existing_file # loc[w].file_path

OneFirstObserver ==
    \A v, w \in Threads :
        (v # w /\ pc[v] \in Observed /\ pc[w] \in Observed
            /\ loc[v].file_size = loc[w].file_size)
        => ~(loc[v].existing_file = NoPath /\ loc[w].existing_file = NoPath)

SizeEntryStable ==
    run' = run =>
        \A s \in DOMAIN file_sizes : s \in DOMAIN file_sizes' /\ file_sizes'[s] = file_sizes[s]

FirstObserverOnly ==
    \A w \in Threads :
        (pc[w] = "size" /\ pc'[w] = "hash_open") =>
            (loc'[w].existing_file = NoPath <=> loc[w].file_size \notin DOMAIN file_sizes)

C14_SizeBucketAtomic ==
    /\ [](SizeEntryAgrees /\ OneFirstObserver)
    /\ [][SizeEntryStable /\ FirstObserverOnly]_vars

C14_Witness ==
    \E v, w \in Threads :
        /\ pc[v] \in Observed /\ pc[w] \in Observed
        /\ loc[v].file_size = loc[w].file_size
        /\ loc[v].existing_file = NoPath
        /\ loc[w].existing_file = loc[v].file_path

\* C15. Exclusion is total: process_file on a path that matches an exclusion
\* pattern changes neither the statistics, the size-bucket map, the Index nor
\* the tree, and feeds nothing to the hash object; every path ending in
\* .tmp_dedupy is excluded, and no process_file call ever has such a path as
\* its candidate.
Walked == {p \in DOMAIN fs : ~is_excluded(p)}

TmpExcluded == \A p \in DOMAIN fs : FnMatch(p, TMP) => is_excluded(p)

NoTmpCandidate ==
    \A w \in Threads : pc[w] # "idle" => ~FnMatch(loc[w].file_path, TMP)

SkipExcluded ==
    (queue # <<>> /\ FnMatch(Head(queue), TMP) /\ queue' = Tail(queue)) =>
        /\ stats' = stats
        /\ file_sizes' = file_sizes
        /\ hashes' = hashes
        /\ hasher' = hasher
        /\ fs' = fs
        /\ pc' = pc
        /\ loc' = loc

C15_ExclusionTotal ==
    /\ [](TmpExcluded /\ NoTmpCandidate)
    /\ [][SkipExcluded]_vars

\* A second run has walked a tree that held a temporary sibling (no duplicate
\* was found in it, so the sibling is not of its own making) and has counted
\* the other paths only.
C15_Witness ==
    /\ run = 2 /\ phase = "finished"
    /\ stats.duplicates_found = 0
    /\ \E p \in DOMAIN fs : FnMatch(p, TMP)
    /\ stats.total_files = Cardinality(Walked)

\* C16. The fingerprint is a function of the content only: whatever was
\* hashed before or is being hashed by another worker, the fingerprint
\* get_file_hash returns for a file is the digest of that file's bytes (so
\* identical files get equal fingerprints and different files their own).
C16_FingerprintOfContent ==
    \A w \in Threads :
        (pc[w] = "resolve" /\ loc[w].file_hash # NoHash) =>
            /\ Exists(loc[w].file_path)
            /\ loc[w].file_hash = hexdigest(Data(loc[w].file_path))

\* C17. All Index access is serialized: a worker that looks a fingerprint up
\* in the Index (the membership test of the resolver, the read of the
\* canonical path) or that inserts and flushes holds hashes_lock while it
\* does.
LooksUp(w) ==
    \/ /\ pc[w] = "resolve" /\ pc'[w] # "resolve"
       /\ loc[w].existing_file # NoPath
       /\ loc[w].file_hash # NoHash
       /\ (~use_bloom_filter \/ BloomContains(loc[w].file_hash))
    \/ /\ pc[w] = "strategy" /\ pc'[w] # "strategy"
       /\ replace_strategy = "hardlink"

Registers(w) == pc[w] = "register" /\ pc'[w] = "idle"

C17_IndexSerialized ==
    [][\A w \in Threads : (LooksUp(w) \/ Registers(w)) => hashes_lock = w]_vars

\* C18. Lock discipline: a worker holds at most one of the three locks and
\* none while it reads a file for hashing or runs a strategy's rename, link
\* or remove; the Index, the size-bucket map and the statistics are each read
\* or written only by a worker that holds the structure's own lock.
Held(w) ==
    {l \in {"hashes", "file_sizes", "stats"} :
        \/ l = "hashes" /\ hashes_lock = w
        \/ l = "file_sizes" /\ file_sizes_lock = w
        \/ l = "stats" /\ stats_lock = w}

Blocking == {"stat", "hash_open", "hash_read", "strategy", "hl_stat", "hl_rename",
             "hl_link", "hl_remove"}

OneLockAtATime ==
    \A w \in Threads :
        /\ Cardinality(Held(w)) <= 1
        /\ pc[w] \in Blocking => Held(w) = {}

\* The step of w reads or writes the structure.
TouchesSizes(w) == pc[w] = "size" /\ pc'[w] = "hash_open"

TouchesStats(w) ==
    \/ pc[w] \in StatsPcs /\ pc'[w] # pc[w]
    \/ Registers(w) /\ loc[w].file_hash # NoHash

OwnLockOnly ==
    \A w \in Threads :
        /\ (LooksUp(w) \/ Registers(w)) => hashes_lock = w
        /\ TouchesSizes(w) => file_sizes_lock = w
        /\ TouchesStats(w) => stats_lock = w

C18_LockDiscipline ==
    /\ []OneLockAtATime
    /\ [][OwnLockOnly]_vars

\* C19. Statistics invariant: hard_links_created + duplicates_removed <=
\* duplicates_found <= total_files; no counter decreases during a run;
\* space_saved grows exactly when a hard-link replacement has completed, by
\* the size of the duplicate it replaced, and so is the sum of those sizes;
\* a create_hard_link call that finds both paths on one inode changes no
\* counter.
CountersOrdered ==
    /\ stats.hard_links_created + stats.duplicates_removed <= stats.duplicates_found
    /\ stats.duplicates_found <= stats.total_files

\* What a worker about to count a hard link has done: the duplicate path is
\* on another inode than before and the temporary sibling is gone.
ReplacementCompleted ==
    \A w \in Threads :
        /\ pc[w] = "hl_count" =>
              /\ loc[w].hl = "none"
              /\ Exists(Target(w))
              /\ fs[Target(w)] # loc[w].st_ino_target
              /\ ~Exists(TmpOf(Target(w)))
        /\ loc[w].hl = "same" => pc[w] = "register"

CountsLink(w) == pc[w] = "hl_count" /\ pc'[w] = "register"

CountersStep ==
    run' = run =>
        /\ \A c \in DOMAIN stats : stats'[c] >= stats[c]
        /\ \A w \in Threads :
              /\ CountsLink(w) =>
                    /\ stats'.hard_links_created = stats.hard_links_created + 1
                    /\ stats'.space_saved =
                          stats.space_saved + Len(tree[loc[w].st_ino_target].data)
              /\ (loc'[w].hl = "same" /\ loc[w].hl # "same") => stats' = stats
        /\ (\A w \in Threads : ~CountsLink(w)) =>
              /\ stats'.hard_links_created = stats.hard_links_created
              /\ stats'.space_saved = stats.space_saved

C20_IndexEntriesValid ==
    (run = 1 /\ phase = "finished" /\ ~dry_run /\ faults = 0) =>
        \A f \in DOMAIN hashes :
            /\ Exists(hashes[f])
            /\ ~IsLink(hashes[f])
            /\ hexdigest(Data(hashes[f])) = f
====
